---- MODULE Spec2Model ----
(***************************************************************************)
(* airflow/utils/session.py: create_session, provide_session and           *)
(* create_global_lock, as a state machine.                                 *)
(*                                                                         *)
(* Every process runs one call.  Each process keeps the log of the calls   *)
(* it made on its session and connection, in program order, the exception  *)
(* in flight, and its position in the code.  The only state shared by the  *)
(* processes is the database's lock table (holder).                        *)
(*                                                                         *)
(* What the collaborators may do: the wrapped function or the with-block   *)
(* returns or raises; session.commit() and session.rollback() return or    *)
(* raise; a lock statement returns, raises, and GET_LOCK may time out.     *)
(* settings.Session() and session.close() are taken to return normally.    *)
(***************************************************************************)
EXTENDS Integers, Sequences, FiniteSets

\* Bounds of the model.
NumProcs == 2
MaxIdx == 2
MaxArgs == 3

Procs == 1..NumProcs
\* The single caller of the session scenarios (SessionSpec).
Caller == CHOOSE p \in Procs : \A q \in Procs : p <= q

VARIABLES
    pc,        \* pc[p]: position of process p in the code
    log,       \* log[p]: session / connection calls made by p, in order
    args,      \* args[p]: the call p makes: form, session index, arguments
    passed,    \* passed[p]: the arguments the wrapped function received
    thrown,    \* thrown[p]: what the with-block / wrapped function raised
    exc,       \* exc[p]: exception in flight; at "done", what the caller sees
    dia,       \* dia[p]: the local `dialect` of create_global_lock (line 79)
    holder,    \* the process whose connection holds the database lock, or 0
    dialect,   \* the backend all processes are connected to
    lockargs,  \* pg_lock_id and lock_name every process passes
    deco,      \* the function given to provide_session, and what came of it
    val        \* a call of the GreaterEqualThan validator, and its result

vars == <<pc, log, args, passed, thrown, exc, dia, holder, dialect, lockargs, deco, val>>

----------------------------------------------------------------------------
\* Exceptions.  "none" is no exception.  KeyboardInterrupt stands for the
\* BaseExceptions that are not Exceptions; all the others are Exceptions.
BlockErrors == {"ValueError", "KeyboardInterrupt"}

\* What session.commit() can raise: a database error, an Exception, or a
\* BaseException that reaches it (an interrupt).
CommitErrors == {"CommitError", "KeyboardInterrupt"}

IsException(e) == e \notin {"none", "KeyboardInterrupt"}

\* One entry of a log: the call, the lock id / name of a lock statement, and
\* how the call ended: "ok", the exception it raised, or GET_LOCK's result
\* "1" / "0".
Ev(op, ret) == [op |-> op, id |-> 0, name |-> "", ret |-> ret]
Stmt(op, id, name) == [op |-> op, id |-> id, name |-> name, ret |-> "ok"]
Ret(s, ret) == [s EXCEPT !.ret = ret]

NoArgs == [form |-> "none", idx |-> 0, nargs |-> 0, kw |-> FALSE]
NoPassed == [nargs |-> 0, kw |-> FALSE, injected |-> FALSE]
NoDialect == [name |-> "", server_version_info |-> <<>>]
\* No function has been given to provide_session.
NoDeco == [state |-> "none", qualname |-> "", params |-> <<>>, idx |-> 0,
           error |-> [type |-> "none", func |-> ""]]
\* The validator has not been called.
NoVal == [state |-> "none"]

\* The backends: dialect.name and dialect.server_version_info.
Dialects ==
    { [name |-> "postgresql", server_version_info |-> <<12, 3>>],
      [name |-> "mysql", server_version_info |-> <<5, 5, 62>>],
      [name |-> "mysql", server_version_info |-> <<5, 6>>],
      [name |-> "mysql", server_version_info |-> <<8, 0, 21>>],
      [name |-> "mssql", server_version_info |-> <<14, 0>>],
      [name |-> "sqlite", server_version_info |-> <<3, 31>>] }

\* create_global_lock's pg_lock_id and lock_name: the defaults, and others.
LockArgs ==
    { [pg_lock_id |-> 1, lock_name |-> "init"],
      [pg_lock_id |-> 2, lock_name |-> "upgrade"] }

----------------------------------------------------------------------------
Init ==
    /\ pc = [p \in Procs |-> "start"]
    /\ log = [p \in Procs |-> <<>>]
    /\ args = [p \in Procs |-> NoArgs]
    /\ passed = [p \in Procs |-> NoPassed]
    /\ thrown = [p \in Procs |-> "none"]
    /\ exc = [p \in Procs |-> "none"]
    /\ dia = [p \in Procs |-> NoDialect]
    /\ holder = 0
    /\ dialect \in Dialects
    /\ lockargs \in LockArgs
    /\ deco = NoDeco
    /\ val = NoVal

----------------------------------------------------------------------------
\* create_session (lines 26-37), a generator-based context manager.

\* Mutant of Handler: an exception the handler does not catch leaves the
\* generator without running the finally.
Handler_NoFinally(e) == IF IsException(e) THEN "rollback" ELSE "done"

\* Line 33, `except Exception:`: where control goes when e is raised inside
\* the try: to the handler (rollback), or past it to the finally (close).
Handler(e) == IF IsException(e) THEN "rollback" ELSE "close"

\* Mutant of AfterYield: the commit of line 32 is left out.
AfterYield_NoCommit(e) == IF e = "none" THEN "close" ELSE Handler(e)

\* Lines 31-32: the generator resumes after the yield.  The block returned:
\* commit; the block raised e: e is thrown at the yield.
AfterYield(e) == IF e = "none" THEN "commit" ELSE Handler(e)

\* Line 35, the bare `raise`, reached only if rollback returned: the
\* exception leaving the handler.
Reraise(e, rollback_ok) == IF rollback_ok THEN e ELSE "RollbackError"

\* find_session_idx(create_global_lock): `session` is its first parameter
\* (line 77).
LockSessionIdx == 0

\* Mutant of Supplied: only the keyword is looked at.
Supplied_KeywordOnly(idx, nargs, kw) == kw

\* Mutant of Supplied: `<=` for `<`.
Supplied_OffByOne(idx, nargs, kw) == kw \/ idx <= nargs

\* Mutant of Supplied: the test of line 66 is left out.
Supplied_Never(idx, nargs, kw) == FALSE

\* Line 66: whether the caller supplied a session.
Supplied(idx, nargs, kw) == kw \/ idx < nargs

\* provide_session.wrapper, lines 66-70: whether it opens a session, and
\* the arguments it calls func with.
Wrapper(idx, nargs, kw) ==
    IF Supplied(idx, nargs, kw)
    THEN [opens |-> FALSE,
          passed |-> [nargs |-> nargs, kw |-> kw, injected |-> FALSE]]
    ELSE [opens |-> TRUE,
          passed |-> [nargs |-> nargs, kw |-> kw, injected |-> TRUE]]

\* Whether p runs inside a create_session scope of its own.
Owns(p) == args[p].form = "direct" \/ passed[p].injected

\* Where the caller continues once the call has returned or raised: a
\* create_global_lock call that returned gave the caller a context manager.
Returned(p, e) == IF args[p].form = "lock" /\ e = "none" THEN "cm" ELSE "done"

\* The call: `with create_session() as session:` (form "direct"), a function
\* wrapped by provide_session (form "wrapped"), or create_global_lock (form
\* "lock"), with nargs positional arguments and, if kw, a `session` keyword.
Call(p, form, idx, nargs, kw) ==
    /\ pc[p] = "start"
    /\ args' = [args EXCEPT ![p] =
                   [form |-> form, idx |-> idx, nargs |-> nargs, kw |-> kw]]
    /\ LET w == IF form = "direct"
                THEN [opens |-> TRUE, passed |-> NoPassed]
                ELSE Wrapper(idx, nargs, kw)
       IN  /\ passed' = [passed EXCEPT ![p] = w.passed]
           /\ log' = [log EXCEPT ![p] =
                         IF w.opens THEN Append(@, Ev("Session", "ok")) ELSE @]
    /\ pc' = [pc EXCEPT ![p] = "body"]
    /\ UNCHANGED <<thrown, exc, dia, holder, dialect, lockargs, deco, val>>

\* The with-block or the wrapped function ends: it returns (e = "none") or
\* raises e.  contextlib's helper for create_global_lock only builds the
\* context manager: it runs no line of the generator and returns.
BodyEnd(p, e) ==
    /\ pc[p] = "body"
    /\ args[p].form = "lock" => e = "none"
    /\ thrown' = [thrown EXCEPT ![p] = e]
    /\ exc' = [exc EXCEPT ![p] = e]
    /\ log' = [log EXCEPT ![p] =
                  Append(@, Ev("body", IF e = "none" THEN "ok" ELSE e))]
    /\ pc' = [pc EXCEPT ![p] = IF Owns(p) THEN AfterYield(e) ELSE Returned(p, e)]
    /\ UNCHANGED <<args, passed, dia, holder, dialect, lockargs, deco, val>>

\* Line 32: session.commit() returns (e = "none") or raises e.
Commit(p, e) ==
    /\ pc[p] = "commit"
    /\ log' = [log EXCEPT ![p] =
                  Append(@, Ev("commit", IF e = "none" THEN "ok" ELSE e))]
    /\ exc' = [exc EXCEPT ![p] = e]
    /\ pc' = [pc EXCEPT ![p] = IF e = "none" THEN "close" ELSE Handler(e)]
    /\ UNCHANGED <<args, passed, thrown, dia, holder, dialect, lockargs, deco, val>>

\* Lines 34-35: session.rollback() returns or raises, then `raise`.
Rollback(p, ok) ==
    /\ pc[p] = "rollback"
    /\ log' = [log EXCEPT ![p] =
                  Append(@, Ev("rollback", IF ok THEN "ok" ELSE "RollbackError"))]
    /\ exc' = [exc EXCEPT ![p] = Reraise(@, ok)]
    /\ pc' = [pc EXCEPT ![p] = "close"]
    /\ UNCHANGED <<args, passed, thrown, dia, holder, dialect, lockargs, deco, val>>

\* Lines 36-37: the finally; then the exception in flight, if any, leaves
\* the with statement of the wrapper or of the caller.
Close(p) ==
    /\ pc[p] = "close"
    /\ log' = [log EXCEPT ![p] = Append(@, Ev("close", "ok"))]
    /\ pc' = [pc EXCEPT ![p] = Returned(p, exc[p])]
    /\ UNCHANGED <<args, passed, thrown, exc, dia, holder, dialect, lockargs, deco, val>>

----------------------------------------------------------------------------
\* The session scenarios: one caller, every call form except the lock.
SessionNext ==
    \/ Call(Caller, "direct", 0, 0, FALSE)
    \/ \E idx \in 0..MaxIdx, nargs \in 0..MaxArgs, kw \in BOOLEAN :
           Call(Caller, "wrapped", idx, nargs, kw)
    \/ \E e \in {"none"} \cup BlockErrors : BodyEnd(Caller, e)
    \/ \E e \in {"none"} \cup CommitErrors : Commit(Caller, e)
    \/ \E ok \in BOOLEAN : Rollback(Caller, ok)
    \/ Close(Caller)

\* create_session and provide_session read nothing of the backend.
SessionInit ==
    /\ Init
    /\ dialect.name = "sqlite"
    /\ lockargs.pg_lock_id = 1

SessionSpec == SessionInit /\ [][SessionNext]_vars

----------------------------------------------------------------------------
\* create_global_lock (lines 75-107): provide_session around a
\* generator-based context manager.

\* Python's comparison of tuples, a >= b: by the first position where they
\* differ; a tuple that is a proper prefix of the other is the smaller.
RECURSIVE TupleGE(_, _)
TupleGE(a, b) ==
    IF b = <<>> THEN TRUE
    ELSE IF a = <<>> THEN FALSE
    ELSE IF Head(a) # Head(b) THEN Head(a) > Head(b)
    ELSE TupleGE(Tail(a), Tail(b))

\* Mutant of MySQLLocks: the version is not looked at.
MySQLLocks_AnyVersion(d) == d.name = "mysql"

\* Lines 84-87 and 99-102: the mysql versions that get a lock.
MySQLLocks(d) == d.name = "mysql" /\ TupleGE(d.server_version_info, <<5, 6>>)

\* Mutant of AcquireStmts: mssql is given mysql's statement.
AcquireStmts_Mssql(d, la) ==
    (IF d.name = "postgresql"
     THEN <<Stmt("PG_ADVISORY_LOCK", la.pg_lock_id, "")>> ELSE <<>>)
    \o (IF d.name = "mssql" \/ MySQLLocks(d)
        THEN <<Stmt("GET_LOCK", 0, la.lock_name)>> ELSE <<>>)

\* Lines 81-92: the statements the acquire side executes for dialect d.
AcquireStmts(d, la) ==
    (IF d.name = "postgresql"
     THEN <<Stmt("PG_ADVISORY_LOCK", la.pg_lock_id, "")>> ELSE <<>>)
    \o (IF MySQLLocks(d)
        THEN <<Stmt("GET_LOCK", 0, la.lock_name)>> ELSE <<>>)

\* Mutant of ReleaseStmts: the unlock uses the default id, not pg_lock_id.
ReleaseStmts_DefaultId(d, la) ==
    (IF d.name = "postgresql"
     THEN <<Stmt("PG_ADVISORY_UNLOCK", 1, "")>> ELSE <<>>)
    \o (IF MySQLLocks(d)
        THEN <<Stmt("RELEASE_LOCK", 0, la.lock_name)>> ELSE <<>>)

\* Mutant of ReleaseStmts: the version test of lines 99-102 is left out.
ReleaseStmts_AnyMySQL(d, la) ==
    (IF d.name = "postgresql"
     THEN <<Stmt("PG_ADVISORY_UNLOCK", la.pg_lock_id, "")>> ELSE <<>>)
    \o (IF d.name = "mysql"
        THEN <<Stmt("RELEASE_LOCK", 0, la.lock_name)>> ELSE <<>>)

\* Lines 96-107: the statements the finally executes for dialect d.
ReleaseStmts(d, la) ==
    (IF d.name = "postgresql"
     THEN <<Stmt("PG_ADVISORY_UNLOCK", la.pg_lock_id, "")>> ELSE <<>>)
    \o (IF MySQLLocks(d)
        THEN <<Stmt("RELEASE_LOCK", 0, la.lock_name)>> ELSE <<>>)

\* `with create_global_lock(...):` enters the context manager: the generator
\* starts and reads the dialect off the session's connection (line 79).
Enter(p) ==
    /\ pc[p] = "cm"
    /\ dia' = [dia EXCEPT ![p] = dialect]
    /\ log' = [log EXCEPT ![p] = Append(@, Ev("dialect", "ok"))]
    /\ pc' = [pc EXCEPT ![p] = "acquire"]
    /\ UNCHANGED <<args, passed, thrown, exc, holder, dialect, lockargs, deco, val>>

\* Lines 81-94 for a dialect that gets no statement: straight to the yield.
AcquireNone(p) ==
    /\ pc[p] = "acquire"
    /\ AcquireStmts(dia[p], lockargs) = <<>>
    /\ log' = [log EXCEPT ![p] = Append(@, Ev("yield", "ok"))]
    /\ pc' = [pc EXCEPT ![p] = "block"]
    /\ UNCHANGED <<args, passed, thrown, exc, dia, holder, dialect, lockargs, deco, val>>

\* Lines 82 / 88: the statement returns with the lock granted, which the
\* database does only while no other connection holds it; then the yield.
AcquireGranted(p) ==
    /\ pc[p] = "acquire"
    /\ AcquireStmts(dia[p], lockargs) # <<>>
    /\ holder = 0
    /\ holder' = p
    /\ LET s == Head(AcquireStmts(dia[p], lockargs))
       IN  log' = [log EXCEPT ![p] =
                      @ \o <<Ret(s, IF s.op = "GET_LOCK" THEN "1" ELSE "ok"),
                             Ev("yield", "ok")>>]
    /\ pc' = [pc EXCEPT ![p] = "block"]
    /\ UNCHANGED <<args, passed, thrown, exc, dia, dialect, lockargs, deco, val>>

\* Line 88: GET_LOCK gives up after mysql_lock_timeout seconds while another
\* connection holds the lock: the statement returns 0.  The code does not
\* read the result; then the yield.
AcquireTimeout(p) ==
    /\ pc[p] = "acquire"
    /\ AcquireStmts(dia[p], lockargs) # <<>>
    /\ Head(AcquireStmts(dia[p], lockargs)).op = "GET_LOCK"
    /\ holder \notin {0, p}
    /\ log' = [log EXCEPT ![p] =
                  @ \o <<Ret(Head(AcquireStmts(dia[p], lockargs)), "0"),
                         Ev("yield", "ok")>>]
    /\ pc' = [pc EXCEPT ![p] = "block"]
    /\ UNCHANGED <<args, passed, thrown, exc, dia, holder, dialect, lockargs, deco, val>>

\* Lines 82 / 88: the statement raises; control goes to the finally.
AcquireRaise(p) ==
    /\ pc[p] = "acquire"
    /\ AcquireStmts(dia[p], lockargs) # <<>>
    /\ log' = [log EXCEPT ![p] =
                  Append(@, Ret(Head(AcquireStmts(dia[p], lockargs)), "AcquireError"))]
    /\ exc' = [exc EXCEPT ![p] = "AcquireError"]
    /\ pc' = [pc EXCEPT ![p] = "release"]
    /\ UNCHANGED <<args, passed, thrown, dia, holder, dialect, lockargs, deco, val>>

\* The protected block ends: it returns, or raises e, which is thrown into
\* the generator at the yield (line 94); control goes to the finally.
BlockEnd(p, e) ==
    /\ pc[p] = "block"
    /\ thrown' = [thrown EXCEPT ![p] = e]
    /\ exc' = [exc EXCEPT ![p] = e]
    /\ log' = [log EXCEPT ![p] =
                  Append(@, Ev("block", IF e = "none" THEN "ok" ELSE e))]
    /\ pc' = [pc EXCEPT ![p] = "release"]
    /\ UNCHANGED <<args, passed, dia, holder, dialect, lockargs, deco, val>>

\* Lines 95-107 for a dialect that gets no statement.
ReleaseNone(p) ==
    /\ pc[p] = "release"
    /\ ReleaseStmts(dia[p], lockargs) = <<>>
    /\ pc' = [pc EXCEPT ![p] = "done"]
    /\ UNCHANGED <<log, args, passed, thrown, exc, dia, holder, dialect, lockargs, deco, val>>

\* Lines 97 / 103: the release statement returns or raises.  A statement
\* that returns frees the lock if this connection holds it; one that raises
\* replaces the exception in flight.
Release(p, ok) ==
    /\ pc[p] = "release"
    /\ ReleaseStmts(dia[p], lockargs) # <<>>
    /\ log' = [log EXCEPT ![p] =
                  Append(@, Ret(Head(ReleaseStmts(dia[p], lockargs)),
                                IF ok THEN "ok" ELSE "ReleaseError"))]
    /\ holder' = IF ok /\ holder = p THEN 0 ELSE holder
    /\ exc' = [exc EXCEPT ![p] = IF ok THEN @ ELSE "ReleaseError"]
    /\ pc' = [pc EXCEPT ![p] = "done"]
    /\ UNCHANGED <<args, passed, thrown, dia, dialect, lockargs, deco, val>>

\* The calls of create_global_lock, as <<number of positional arguments,
\* session keyword given>>: create_global_lock() and
\* create_global_lock(session=s).  A session given positionally differs
\* from the keyword only in line 66, which SessionSpec runs for every index.
LockCalls == { <<0, FALSE>>, <<0, TRUE>> }

Next ==
    \E p \in Procs :
        \/ \E c \in LockCalls : Call(p, "lock", LockSessionIdx, c[1], c[2])
        \/ BodyEnd(p, "none")
        \/ \E e \in {"none"} \cup CommitErrors : Commit(p, e)
        \/ \E ok \in BOOLEAN : Rollback(p, ok)
        \/ Close(p)
        \/ Enter(p)
        \/ AcquireNone(p)
        \/ AcquireGranted(p)
        \/ AcquireTimeout(p)
        \/ AcquireRaise(p)
        \/ \E e \in {"none", "ValueError"} : BlockEnd(p, e)
        \/ ReleaseNone(p)
        \/ \E ok \in BOOLEAN : Release(p, ok)

Spec == Init /\ [][Next]_vars

----------------------------------------------------------------------------
\* Reading the logs.

\* The operations of log l, without their arguments and results.
Names(l) == [i \in 1..Len(l) |-> l[i].op]

\* The entries of sequence l, as a set.
Range(l) == { l[i] : i \in 1..Len(l) }

\* The entries of l whose operation is in ops.
Only(l, ops) == SelectSeq(l, LAMBDA e : e.op \in ops)

Count(l, op) == Len(Only(l, {op}))

\* Every a of l comes before every b of l.
Precedes(l, a, b) ==
    \A i, j \in 1..Len(l) : l[i].op = a /\ l[j].op = b => i < j

\* What create_session did to its session from the end of the block on.
SessionOps(l) == Only(l, {"commit", "rollback", "close"})

\* A run of create_session by the caller has ended.
ScopeDone == pc[Caller] = "done" /\ Owns(Caller)

----------------------------------------------------------------------------
\* C1 (as claimed): whenever the block of a create_session scope raised an
\* exception E (an Exception), the scope called rollback, then close, never
\* commit, and the caller observes E itself.
C1_BlockRaises_RollbackCloseSameError ==
    (ScopeDone /\ IsException(thrown[Caller])) =>
        /\ Names(SessionOps(log[Caller])) = <<"rollback", "close">>
        /\ exc[Caller] = thrown[Caller]

\* C2 (as claimed): whenever the block of a create_session scope returned
\* normally, the scope called commit, then close, and never rollback.
C2_BlockReturns_CommitCloseOnly ==
    (ScopeDone /\ thrown[Caller] = "none") =>
        Names(SessionOps(log[Caller])) = <<"commit", "close">>

\* C2 (amended): whenever the block of a create_session scope returned
\* normally, commit is called first and once, and close last and once;
\* rollback is called, once and between them, exactly when commit raised an
\* Exception, and never when commit returned.
C2_BlockReturns_CommitFirstCloseLast ==
    (ScopeDone /\ thrown[Caller] = "none") =>
        LET ops == SessionOps(log[Caller])
        IN  /\ Len(ops) >= 2
            /\ ops[1].op = "commit"
            /\ Names(ops) = IF IsException(ops[1].ret) /\ ops[1].ret # "ok"
                            THEN <<"commit", "rollback", "close">>
                            ELSE <<"commit", "close">>

\* C2 witness: a scope whose block returned and whose commit returned, and
\* the run has ended.
C2_Witness ==
    /\ ScopeDone
    /\ thrown[Caller] = "none"
    /\ exc[Caller] = "none"
    /\ Count(log[Caller], "commit") = 1

\* C3 (as claimed): when a create_session scope has ended, its session was
\* closed exactly once and was either committed or rolled back, exactly
\* once and not both, whatever the block, commit and rollback did.  Read in
\* the claim's favour: it is enough that exactly one of commit and rollback
\* was called, or that exactly one of them returned.
C3_CommittedXorRolledBackAndClosedOnce ==
    ScopeDone =>
        LET ops == SessionOps(log[Caller])
            okd == SelectSeq(ops, LAMBDA e : e.ret = "ok")
        IN  /\ Count(ops, "close") = 1
            /\ \/ Count(ops, "commit") + Count(ops, "rollback") = 1
               \/ Count(okd, "commit") + Count(okd, "rollback") = 1

\* C4: a call of a wrapped function that supplies a session, by keyword or
\* at the function's session index, never makes the wrapper open a session,
\* and the function receives the caller's arguments and nothing else.
C4_SuppliedSession_NoNewSession ==
    \A p \in Procs :
        (/\ args[p].form = "wrapped"
         /\ (args[p].kw \/ args[p].nargs >= args[p].idx + 1)) =>
            /\ Count(log[p], "Session") = 0
            /\ passed[p] = [nargs |-> args[p].nargs, kw |-> args[p].kw,
                            injected |-> FALSE]
            /\ SessionOps(log[p]) = <<>>

\* C4 witness: a finished call that supplied the session positionally, at a
\* session index that is not the first.
C4_Witness ==
    /\ pc[Caller] = "done"
    /\ args[Caller].form = "wrapped"
    /\ ~args[Caller].kw
    /\ args[Caller].idx > 0
    /\ args[Caller].nargs = args[Caller].idx + 1
    /\ Count(log[Caller], "body") = 1

\* C5: a call of a wrapped function that supplies no session (no keyword,
\* fewer positional arguments than the session index + 1) makes the wrapper
\* open exactly one session and pass it as `session`; once the call has
\* ended the session was closed exactly once, and if the function returned,
\* commit was called on it, first and once.
C5_NoSession_OpensOneCommitsCloses ==
    \A p \in Procs :
        (/\ args[p].form = "wrapped"
         /\ ~args[p].kw
         /\ args[p].nargs < args[p].idx + 1) =>
            /\ Count(log[p], "Session") = 1
            /\ passed[p].injected
            /\ passed[p].nargs = args[p].nargs
            /\ pc[p] = "done" =>
                   /\ Count(log[p], "close") = 1
                   /\ thrown[p] = "none" =>
                          /\ Count(log[p], "commit") = 1
                          /\ Head(SessionOps(log[p])).op = "commit"

\* C5 witness: a finished call with positional arguments but no session,
\* whose function returned and whose session was committed.
C5_Witness ==
    /\ pc[Caller] = "done"
    /\ args[Caller].form = "wrapped"
    /\ ~args[Caller].kw
    /\ args[Caller].nargs = args[Caller].idx
    /\ args[Caller].nargs > 0
    /\ thrown[Caller] = "none"
    /\ exc[Caller] = "none"
    /\ Names(log[Caller]) = <<"Session", "body", "commit", "close">>

\* C10 (as claimed): if the block of a create_session scope raised E and
\* rollback then raised, the caller still observes E.
C10_RollbackFailureKeepsOriginal ==
    (/\ ScopeDone
     /\ thrown[Caller] # "none"
     /\ \E i \in 1..Len(log[Caller]) :
            log[Caller][i].op = "rollback" /\ log[Caller][i].ret # "ok") =>
        exc[Caller] = thrown[Caller]

----------------------------------------------------------------------------
\* Claims about create_global_lock (Spec).

\* p called create_global_lock without a session.
AutoSession(p) == args[p].form = "lock" /\ passed[p].injected

\* Positions of p inside the generator of create_global_lock: acquiring,
\* in the protected block, releasing.
InLockScope(p) == pc[p] \in {"acquire", "block", "release"}

\* The lock statements of log l.
LockStmts(l) ==
    Only(l, {"PG_ADVISORY_LOCK", "GET_LOCK", "PG_ADVISORY_UNLOCK", "RELEASE_LOCK"})

\* C6 (as claimed): when create_global_lock is called without a session,
\* the session the wrapper opened is open, neither committed nor closed,
\* while the scope acquires, runs the protected block and releases.
C6_AutoSessionOpenThroughoutLockScope ==
    \A p \in Procs :
        (AutoSession(p) /\ InLockScope(p)) =>
            /\ Count(log[p], "Session") = 1
            /\ SessionOps(log[p]) = <<>>

\* C7 (as claimed): on mysql at or above (5, 6), a GET_LOCK that returned
\* the failure indicator keeps the protected block from running, and the
\* caller gets a lock-acquisition timeout error.
C7_GetLockTimeoutSurfaces ==
    \A p \in Procs :
        (\E i \in 1..Len(log[p]) :
             log[p][i].op = "GET_LOCK" /\ log[p][i].ret = "0") =>
            /\ pc[p] # "block"
            /\ Count(log[p], "yield") = 0
            /\ pc[p] = "done" => exc[p] = "LockTimeout"

\* The backends create_global_lock has lock statements for.
Supporting(d) ==
    \/ d.name = "postgresql"
    \/ d.name = "mysql" /\ TupleGE(d.server_version_info, <<5, 6>>)

\* C8 (as claimed): on a supporting backend, with every process using the
\* same lock identifier, at most one process is in its protected block.
C8_MutualExclusion ==
    Supporting(dialect) =>
        Cardinality({p \in Procs : pc[p] = "block"}) <= 1

\* C9: on postgresql a scope executes at most one PG_ADVISORY_LOCK and at
\* most one PG_ADVISORY_UNLOCK and no other lock statement, both with the
\* pg_lock_id it was given; the lock statement comes before the protected
\* block starts and the unlock statement after it has ended; a scope in its
\* block has executed the lock and not the unlock, and a scope that has
\* ended has executed exactly one of each, whether the block returned or
\* raised.
C9_Postgres_OneLockBeforeOneUnlockAfter ==
    \A p \in Procs :
        dia[p].name = "postgresql" =>
            LET l == log[p]
                locks == Only(l, {"PG_ADVISORY_LOCK"})
                unlocks == Only(l, {"PG_ADVISORY_UNLOCK"})
            IN  /\ Len(locks) <= 1
                /\ Len(unlocks) <= 1
                /\ Len(LockStmts(l)) = Len(locks) + Len(unlocks)
                /\ \A i \in 1..Len(LockStmts(l)) :
                       LockStmts(l)[i].id = lockargs.pg_lock_id
                /\ Precedes(l, "PG_ADVISORY_LOCK", "yield")
                /\ Precedes(l, "PG_ADVISORY_LOCK", "PG_ADVISORY_UNLOCK")
                /\ Precedes(l, "yield", "block")
                /\ Precedes(l, "block", "PG_ADVISORY_UNLOCK")
                /\ pc[p] = "block" => Len(locks) = 1 /\ Len(unlocks) = 0
                /\ Count(l, "block") = 1 => Count(l, "yield") = 1
                /\ pc[p] = "done" => Len(locks) = 1 /\ Len(unlocks) = 1

\* C9 witness: a postgresql scope with a pg_lock_id other than the default
\* has ended after its protected block raised, and another one after its
\* block returned.
C9_Witness ==
    /\ dialect.name = "postgresql"
    /\ lockargs.pg_lock_id # 1
    /\ \E p, q \in Procs :
           /\ pc[p] = "done" /\ thrown[p] = "ValueError"
           /\ Count(log[p], "PG_ADVISORY_UNLOCK") = 1
           /\ pc[q] = "done" /\ thrown[q] = "none"
           /\ Count(log[q], "block") = 1
           /\ Count(log[q], "PG_ADVISORY_UNLOCK") = 1

\* C11 (as claimed): when the protected block of create_global_lock raised
\* E and the scope has ended, the release statement of the backend was
\* executed after the block and the caller observes E, also when that
\* release statement itself raised.
C11_BlockErrorSurvivesRelease ==
    \A p \in Procs :
        (pc[p] = "done" /\ Count(log[p], "block") = 1 /\ thrown[p] # "none") =>
            /\ Supporting(dia[p]) =>
                   /\ Len(Only(log[p], {"PG_ADVISORY_UNLOCK", "RELEASE_LOCK"})) = 1
                   /\ Precedes(log[p], "block", "PG_ADVISORY_UNLOCK")
                   /\ Precedes(log[p], "block", "RELEASE_LOCK")
            /\ exc[p] = thrown[p]

----------------------------------------------------------------------------
\* provide_session at decoration time (lines 43-62).

\* Parameter names, and the signatures made of them: a Python signature
\* never has the same name twice.
ParamNames == {"session", "dag_id", "run_id"}
Signatures ==
    { sig \in UNION { [1..n -> ParamNames] : n \in 0..Cardinality(ParamNames) } :
        \A i, j \in 1..Len(sig) : sig[i] = sig[j] => i = j }

\* func.__qualname__ of the functions that get decorated.
Qualnames == {"get_dag", "DagRun.refresh"}

\* Mutant of find_session_idx: a missing `session` is taken to be the first
\* parameter.
find_session_idx_default(qualname, params) ==
    IF \E i \in 1..Len(params) : params[i] = "session"
    THEN [ok |-> TRUE,
          idx |-> (CHOOSE i \in 1..Len(params) : params[i] = "session") - 1,
          error |-> [type |-> "none", func |-> ""]]
    ELSE [ok |-> TRUE, idx |-> 0, error |-> [type |-> "none", func |-> ""]]

\* find_session_idx, lines 43-52: the position of `session` among the
\* parameters, counted from 0, or a ValueError that names the function.
find_session_idx(qualname, params) ==
    IF \E i \in 1..Len(params) : params[i] = "session"
    THEN [ok |-> TRUE,
          idx |-> (CHOOSE i \in 1..Len(params) : params[i] = "session") - 1,
          error |-> [type |-> "none", func |-> ""]]
    ELSE [ok |-> FALSE, idx |-> 0,
          error |-> [type |-> "ValueError", func |-> qualname]]

\* provide_session(func), lines 55-72: line 62 runs find_session_idx before
\* the wrapper exists; if it raises, there is no wrapper to call.
provide_session(qualname, params) ==
    /\ deco.state = "none"
    /\ LET r == find_session_idx(qualname, params)
       IN  deco' = [state |-> IF r.ok THEN "wrapped" ELSE "error",
                    qualname |-> qualname, params |-> params,
                    idx |-> r.idx, error |-> r.error]
    /\ UNCHANGED <<pc, log, args, passed, thrown, exc, dia, holder, dialect,
                   lockargs, val>>

\* A function is decorated, then the caller calls the wrapper it got.
WrapNext ==
    \/ \E q \in Qualnames, sig \in Signatures : provide_session(q, sig)
    \/ /\ deco.state = "wrapped"
       /\ \E nargs \in 0..MaxArgs, kw \in BOOLEAN :
              Call(Caller, "wrapped", deco.idx, nargs, kw)
    \/ \E e \in {"none"} \cup BlockErrors : BodyEnd(Caller, e)
    \/ \E e \in {"none"} \cup CommitErrors : Commit(Caller, e)
    \/ \E ok \in BOOLEAN : Rollback(Caller, ok)
    \/ Close(Caller)

WrapSpec == SessionInit /\ [][WrapNext]_vars

\* C12: once provide_session has been applied to a function, if the function
\* has no parameter named `session` the decoration raised a ValueError that
\* names the function and no call has been made or can be made; if it has
\* one, the decoration returned a wrapper bound to the position of `session`
\* and no such error exists in any later state, whatever calls are made.
C12_DefinitionErrorAtWrapTimeOnly ==
    deco.state # "none" =>
        IF \A i \in 1..Len(deco.params) : deco.params[i] # "session"
        THEN /\ deco.state = "error"
             /\ deco.error = [type |-> "ValueError", func |-> deco.qualname]
             /\ \A p \in Procs : pc[p] = "start" /\ log[p] = <<>>
        ELSE /\ deco.state = "wrapped"
             /\ deco.error.type = "none"
             /\ deco.params[deco.idx + 1] = "session"
             /\ \A p \in Procs : exc[p] \in {"none"} \cup BlockErrors
                                      \cup CommitErrors \cup {"RollbackError"}

\* C12 witness: a function with parameters, none of them `session`, was
\* given to provide_session and the decoration raised.
C12_Witness ==
    /\ deco.state = "error"
    /\ Len(deco.params) = 2
    /\ deco.qualname = "DagRun.refresh"

----------------------------------------------------------------------------
\* The exceptions that come from locking.
LockErrors == {"AcquireError", "ReleaseError", "LockTimeout"}

\* A scope on a backend without lock statements: it has executed no lock
\* statement, it does not wait at the acquire side, no locking error is in
\* flight, and once it has ended its protected block has run.
NoLocking(p) ==
    /\ LockStmts(log[p]) = <<>>
    /\ exc[p] \notin LockErrors
    /\ pc[p] = "acquire" => ENABLED AcquireNone(p)
    /\ pc[p] = "done" => Count(log[p], "yield") = 1 /\ Count(log[p], "block") = 1

\* C13: on mysql with a server version below (5, 6), a scope executes
\* neither GET_LOCK nor RELEASE_LOCK, does not wait, and its protected block
\* runs, as on mssql.
C13_OldMySQL_NoLockStatements ==
    \A p \in Procs :
        (/\ dia[p].name = "mysql"
         /\ \/ dia[p].server_version_info[1] < 5
            \/ /\ dia[p].server_version_info[1] = 5
               /\ dia[p].server_version_info[2] < 6) =>
            NoLocking(p)

\* C13 witness: a scope on mysql 5.5 has ended and its block has run.
C13_Witness ==
    /\ dialect.name = "mysql"
    /\ dialect.server_version_info[1] = 5
    /\ dialect.server_version_info[2] = 5
    /\ \E p \in Procs : pc[p] = "done" /\ Count(log[p], "block") = 1

\* C14: on mssql a scope executes no acquire and no release statement, does
\* not wait, raises nothing because of locking, and nobody ever holds a
\* lock; two processes can be in the protected block together (the witness).
C14_Mssql_NoLockNoExclusion ==
    dialect.name = "mssql" =>
        /\ holder = 0
        /\ \A p \in Procs : dia[p].name = "mssql" => NoLocking(p)

\* C14 witness: on mssql two processes are in the protected block at once.
C14_Witness ==
    /\ dialect.name = "mssql"
    /\ \E p, q \in Procs : p # q /\ pc[p] = "block" /\ pc[q] = "block"

\* C15: in a create_session scope close is called at most once and nothing
\* is called on the session after it; when the scope has ended close has
\* been called, exactly once and last, whatever the block, commit and
\* rollback did.
C15_CloseAlwaysLast ==
    Owns(Caller) =>
        LET ops == SessionOps(log[Caller])
        IN  /\ Count(ops, "close") <= 1
            /\ \A i \in 1..Len(ops) : ops[i].op = "close" => i = Len(ops)
            /\ pc[Caller] = "done" =>
                   /\ Count(ops, "close") = 1
                   /\ log[Caller][Len(log[Caller])].op = "close"

\* C15 witness: a scope has ended in which commit raised and then rollback
\* raised.
C15_Witness ==
    /\ ScopeDone
    /\ \E i, j \in 1..Len(log[Caller]) :
           /\ log[Caller][i].op = "commit" /\ log[Caller][i].ret = "CommitError"
           /\ log[Caller][j].op = "rollback"
           /\ log[Caller][j].ret = "RollbackError"

\* C16: a scope reads the dialect at most once, before any lock statement;
\* every PG_ADVISORY_UNLOCK it executes comes after a PG_ADVISORY_LOCK of
\* the same scope with the same id, and every RELEASE_LOCK after a GET_LOCK
\* with the same name: a scope without an acquire statement has no release
\* statement.
C16_ReleaseMatchesAcquire ==
    \A p \in Procs :
        LET l == log[p]
        IN  /\ Count(l, "dialect") <= 1
            /\ \A j \in 1..Len(l) :
                   /\ (l[j] \in Range(LockStmts(l))) =>
                          \E i \in 1..(j - 1) : l[i].op = "dialect"
                   /\ l[j].op = "PG_ADVISORY_UNLOCK" =>
                          \E i \in 1..(j - 1) : /\ l[i].op = "PG_ADVISORY_LOCK"
                                                /\ l[i].id = l[j].id
                   /\ l[j].op = "RELEASE_LOCK" =>
                          \E i \in 1..(j - 1) : /\ l[i].op = "GET_LOCK"
                                                /\ l[i].name = l[j].name

\* C16 witness: a mysql scope with a lock name of its own has ended after
\* GET_LOCK and RELEASE_LOCK.
C16_Witness ==
    /\ lockargs.lock_name # "init"
    /\ \E p \in Procs :
           /\ pc[p] = "done"
           /\ Count(log[p], "GET_LOCK") = 1
           /\ Count(log[p], "RELEASE_LOCK") = 1

\* C17: a call of a wrapped function that supplies the session never makes
\* the wrapper open, commit, roll back or close a session; when the call
\* has ended, by return or by exception, the function's body is all that
\* ran and the caller gets what the function returned or raised.
C17_SuppliedSessionLeftAlone ==
    \A p \in Procs :
        (/\ args[p].form = "wrapped"
         /\ (args[p].kw \/ args[p].nargs >= args[p].idx + 1)) =>
            /\ Only(log[p], {"Session", "commit", "rollback", "close"}) = <<>>
            /\ pc[p] \in {"body", "done"}
            /\ pc[p] = "done" =>
                   /\ Len(log[p]) = 1
                   /\ log[p][1].op = "body"
                   /\ exc[p] = thrown[p]

\* C17 witness: a call that supplied the session by keyword has ended with
\* the function raising.
C17_Witness ==
    /\ pc[Caller] = "done"
    /\ args[Caller].form = "wrapped"
    /\ args[Caller].kw
    /\ args[Caller].nargs <= args[Caller].idx
    /\ thrown[Caller] = "ValueError"
    /\ exc[Caller] = "ValueError"

\* C18 (as claimed): a scope executes a release statement only after its
\* acquire statement returned with the lock: not after an acquire statement
\* that raised, nor after a GET_LOCK that returned 0.
C18_ReleaseOnlyIfAcquired ==
    \A p \in Procs :
        \A j \in 1..Len(log[p]) :
            log[p][j].op \in {"PG_ADVISORY_UNLOCK", "RELEASE_LOCK"} =>
                \E i \in 1..(j - 1) :
                    /\ log[p][i].op \in {"PG_ADVISORY_LOCK", "GET_LOCK"}
                    /\ log[p][i].ret \in {"ok", "1"}

----------------------------------------------------------------------------
\* Contention for the postgresql advisory lock, with fairness.

PgInit == Init /\ dialect.name = "postgresql"

\* The steps of p that do not wait for another process: the Python code of
\* p running on, its protected block ending, its statements other than the
\* lock statement completing.
Progress(p) ==
    \/ \E c \in LockCalls : Call(p, "lock", LockSessionIdx, c[1], c[2])
    \/ BodyEnd(p, "none")
    \/ \E e \in {"none"} \cup CommitErrors : Commit(p, e)
    \/ \E ok \in BOOLEAN : Rollback(p, ok)
    \/ Close(p)
    \/ Enter(p)
    \/ \E e \in {"none", "ValueError"} : BlockEnd(p, e)
    \/ \E ok \in BOOLEAN : Release(p, ok)

PgNext ==
    \E p \in Procs :
        \/ Progress(p)
        \/ AcquireGranted(p)
        \/ AcquireRaise(p)

\* Every process keeps running and every protected block ends (weak
\* fairness of Progress); the database grants the lock to a process that
\* is waiting again and again while the lock is free (strong fairness of
\* AcquireGranted: its queue of waiters is served in order).  Nothing
\* obliges a statement to raise.
PgFairSpec ==
    /\ PgInit
    /\ [][PgNext]_vars
    /\ \A p \in Procs : WF_vars(Progress(p)) /\ SF_vars(AcquireGranted(p))

\* C19: on postgresql, with fair lock grants and protected blocks that end,
\* every holder eventually gives up the lock and every process at the lock
\* statement eventually enters its protected block.  Line 97 is the only
\* place the lock is given up: when that statement raises, the lock stays
\* with the connection and the processes waiting at line 82 wait for ever.
C19_HoldersReleaseWaitersEnter ==
    \A p \in Procs :
        /\ (holder = p) ~> (holder # p)
        /\ (pc[p] = "acquire") ~> (pc[p] = "block")

----------------------------------------------------------------------------
\* airflow/www/validators.py: GreaterEqualThan.

MaxVal == 2

\* field.data: None, or a value of a totally ordered type.
NoneData == [isNone |-> TRUE, v |-> 0]
Data == {NoneData} \cup { [isNone |-> FALSE, v |-> x] : x \in 0..MaxVal }

FieldNames == {"start_date", "end_date"}

\* A field's label: absent (hasattr(other, "label") is false), or present
\* with a text that may be empty.
Labels ==
    { [has |-> FALSE, text |-> ""],
      [has |-> TRUE,  text |-> ""],
      [has |-> TRUE,  text |-> "Start Date"] }

Fields == [data : Data, label : Labels]

\* The field under validation: __call__ reads its data (and its gettext).
OwnFields == [data : Data]

\* A form: the fields it has, by name.
Forms == UNION { [present -> Fields] : present \in SUBSET FieldNames }

\* self.message: None, or a format string, given as its pieces.
NoMessage == [isNone |-> TRUE, parts |-> <<>>]
Messages ==
    {NoMessage} \cup
    { [isNone |-> FALSE, parts |-> ps] :
        ps \in { <<"Bad date range.">>,
                 <<"Must not be before ", "%(other_label)s", ".">>,
                 <<"%(other_name)s", " is later.">> } }

Validators == [fieldname : FieldNames, message : Messages]

\* Line 59: message % message_args.
Interpolate(parts, message_args) ==
    [i \in DOMAIN parts |->
        IF parts[i] = "%(other_label)s" THEN message_args.other_label
        ELSE IF parts[i] = "%(other_name)s" THEN message_args.other_name
        ELSE parts[i]]

\* Line 50: hasattr(other, "label") and other.label.text or self.fieldname.
OtherLabel(other, fieldname) ==
    IF other.label.has /\ other.label.text # "" THEN other.label.text
    ELSE fieldname

\* Mutant of Less: equal values count as less.
Less_OrEqual(a, b) == a.v <= b.v

\* Line 48: field.data < other.data, both not None.
Less(a, b) == a.v < b.v

Passes == [type |-> "none", message |-> <<>>, translated |-> FALSE]

ValidationError(message, translated) ==
    [type |-> "ValidationError", message |-> message, translated |-> translated]

\* Lines 39-61.  A message that went through field.gettext is marked
\* translated.
GreaterEqualThan_call(self, form, field) ==
    IF self.fieldname \notin DOMAIN form
    THEN ValidationError(<<"Invalid field name '", self.fieldname, "'.">>, TRUE)
    ELSE LET other == form[self.fieldname]
             message_args ==
                 [other_label |-> OtherLabel(other, self.fieldname),
                  other_name  |-> self.fieldname]
         IN  IF field.data.isNone \/ other.data.isNone
             THEN Passes
             ELSE IF Less(field.data, other.data)
             THEN IF self.message.isNone
                  THEN ValidationError(
                           <<"Field must be greater than or equal to ",
                             message_args.other_label, ".">>, TRUE)
                  ELSE ValidationError(
                           Interpolate(self.message.parts, message_args), FALSE)
             ELSE Passes

\* The validator self is called on a field of a form.
Validate(self, form, field) ==
    /\ val.state = "none"
    /\ val' = [state  |-> "called",
               self   |-> self,
               form   |-> form,
               field  |-> field,
               result |-> GreaterEqualThan_call(self, form, field)]
    /\ UNCHANGED <<pc, log, args, passed, thrown, exc, dia, holder, dialect,
                   lockargs, deco>>

ValidatorNext ==
    \E self \in Validators, form \in Forms, field \in OwnFields :
        Validate(self, form, field)

ValidatorSpec == SessionInit /\ [][ValidatorNext]_vars

\* C20: GreaterEqualThan raises a ValidationError exactly when the named
\* other field is not in the form, or both values are not None and the
\* field's value is strictly less than the other field's; equal values, and
\* any case where either value is None, pass.
C20_RaisesIffMissingOrStrictlyLess ==
    val.state = "called" =>
        LET f == val.self.fieldname
            missing == f \notin DOMAIN val.form
        IN  /\ val.result.type \in {"none", "ValidationError"}
            /\ val.result.type = "ValidationError" <=>
                   \/ missing
                   \/ /\ ~missing
                      /\ ~val.field.data.isNone
                      /\ ~val.form[f].data.isNone
                      /\ val.field.data.v < val.form[f].data.v

\* C20 witness: the other field is in the form, both values are given and
\* equal, and the validator passed.
C20_Witness ==
    /\ val.state = "called"
    /\ val.self.fieldname \in DOMAIN val.form
    /\ ~val.field.data.isNone
    /\ val.form[val.self.fieldname].data = val.field.data
    /\ val.result.type = "none"

====
